---- MODULE Spec2Model ----
(***************************************************************************)
(* A model of src/main.py: the Streamlit data-analysis assistant.          *)
(*                                                                         *)
(* Streamlit runs main() from top to bottom once per user interaction.     *)
(* The state that survives between runs is st.session_state (analyzer,     *)
(* chat_history) and the widget values (api_type, api_key, uploaded_file). *)
(* Each action below is one interaction followed by one complete run of    *)
(* main().  The variable run   records what that run did (what load_data   *)
(* returned, what process_query returned, how many HTTP POSTs were made,   *)
(* what the rendering loop displayed and executed).                        *)
(*                                                                         *)
(* Text (chat contents, API responses) is a sequence of tokens; the token  *)
(* Tick is one backtick character, so the fence markers of lines 263-264   *)
(* are the token sequences OpenFence and CloseFence, and str.split is      *)
(* computed on them as Python computes it.                                *)
(***************************************************************************)
EXTENDS Integers, Sequences, FiniteSets, TLC

\* ---------------------------------------------------------------- bounds
\* number of queries that may be appended to the chat log
MaxQueries == 2
\* length of the contents enumerated for the extraction function
MaxLen == 9

\* ---------------------------------------------------------------- values
\* Python's None, for string-valued fields
None == "None"
\* st.session_state.analyzer = None (line 219)
NoAnalyzer == [kind |-> "None"]

\* the options of the selectbox, line 199
Providers == {"DeepSeek", "Qwen", "Kimi", "Doubao", "Zhipu"}
\* values of the password text_input, line 205 ("" is the empty field)
Keys == {"", "k1", "k2"}
\* files the uploader of line 211 can hand over; the uploader compares
\* extensions case-insensitively, so D.CSV is accepted
Files == {"a.csv", "b.xlsx", "c.csv", "D.CSV"}

\* the last characters of file.name, as line 21 and 23 test them
Suffix(file) ==
    CASE file = "a.csv" -> ".csv"
      [] file = "b.xlsx" -> ".xlsx"
      [] file = "c.csv" -> ".csv"
      [] file = "D.CSV" -> ".CSV"
      [] OTHER -> ""

\* file.name.endswith(suffix)
EndsWith(file, suffix) == Suffix(file) = suffix

\* what the bytes of the file are: c.csv is malformed
Bytes(file) ==
    CASE file = "a.csv" -> "csv"
      [] file = "b.xlsx" -> "xlsx"
      [] file = "D.CSV" -> "csv"
      [] OTHER -> "garbage"

\* the Table parsed from a file
TableOf(file) ==
    CASE file = "a.csv" -> "Table(a)"
      [] file = "b.xlsx" -> "Table(b)"
      [] file = "c.csv" -> "Table(c)"
      [] file = "D.CSV" -> "Table(D)"
      [] OTHER -> None

\* pd.read_excel(file), line 22: a Table, or an exception
read_excel(file) ==
    IF Bytes(file) = "xlsx"
    THEN [raised |-> FALSE, value |-> TableOf(file)]
    ELSE [raised |-> TRUE, value |-> "ValueError"]

\* pd.read_csv(file), line 24: a Table, or an exception
read_csv(file) ==
    IF Bytes(file) = "csv"
    THEN [raised |-> FALSE, value |-> TableOf(file)]
    ELSE [raised |-> TRUE, value |-> "ParserError"]

\* DataAnalyzer.__init__, lines 13-16
DataAnalyzer(api_key, api_type) ==
    [kind |-> "DataAnalyzer", api_key |-> api_key, api_type |-> api_type, df |-> None]

\* DataAnalyzer.load_data, lines 18-28: the value returned, the df it leaves
\* in self, and the st.error it shows (None when it shows none)
load_data(self, file) ==
    IF EndsWith(file, ".xlsx")
    THEN LET r == read_excel(file)
         IN IF r.raised
            THEN [ret |-> FALSE, df |-> self.df, error |-> r.value]
            ELSE [ret |-> TRUE, df |-> r.value, error |-> None]
    ELSE IF EndsWith(file, ".csv")
    THEN LET r == read_csv(file)
         IN IF r.raised
            THEN [ret |-> FALSE, df |-> self.df, error |-> r.value]
            ELSE [ret |-> TRUE, df |-> r.value, error |-> None]
    ELSE [ret |-> TRUE, df |-> self.df, error |-> None]

\* ------------------------------------------------------------------ text
\* one backtick
Tick == "BACKTICK"
\* three backticks and the word python: the marker of line 263
OpenFence == <<Tick, Tick, Tick, "python">>
\* three backticks: the marker of the second split of line 264
CloseFence == <<Tick, Tick, Tick>>

\* sep occurs in s starting at index i
OccursAt(s, sep, i) ==
    /\ i >= 1
    /\ i + Len(sep) - 1 <= Len(s)
    /\ \A k \in 1..Len(sep) : s[i + k - 1] = sep[k]

\* Python's s.find(sep) from index i on, 1-based; 0 when sep does not occur
RECURSIVE FindFrom(_, _, _)
FindFrom(s, sep, i) ==
    IF i + Len(sep) - 1 > Len(s) THEN 0
    ELSE IF OccursAt(s, sep, i) THEN i
    ELSE FindFrom(s, sep, i + 1)

Find(s, sep) == FindFrom(s, sep, 1)

\* Python's test: sep in s
Contains(s, sep) == Find(s, sep) # 0

\* Python's s.split(sep): the pieces between the occurrences of sep, found
\* left to right without overlap
RECURSIVE Split(_, _)
Split(s, sep) ==
    LET i == Find(s, sep)
    IN IF i = 0
       THEN <<s>>
       ELSE <<SubSeq(s, 1, i - 1)>> \o Split(SubSeq(s, i + Len(sep), Len(s)), sep)

\* line 264 without its second split: the text up to the next opening marker
ExtractCodeNoClose(content) == Split(content, OpenFence)[2]

\* message["content"].split(OpenFence)[1].split(CloseFence)[0], line 264
\* (Python indexes from 0, TLA+ from 1)
ExtractCode(content) == Split(Split(content, OpenFence)[2], CloseFence)[1]

\* ------------------------------------------------------------ exec(code)
\* the module's global names, lines 1-9, 12 and 189, and what they name
ModuleGlobals ==
    [st |-> "streamlit", pd |-> "pandas", px |-> "plotly.express",
     requests |-> "requests", json |-> "json", Union |-> "typing.Union",
     OpenAI |-> "openai.OpenAI", os |-> "os", tempfile |-> "tempfile",
     DataAnalyzer |-> "class DataAnalyzer", main |-> "function main"]

\* the names main has assigned when line 267 runs
MainLocals ==
    {"api_type", "api_key", "uploaded_file", "user_input", "response", "message", "code"}

\* what a name is bound to in the namespace exec(code) of line 267 runs in:
\* exec is given no namespace, so it uses main's locals and the module's
\* globals
Resolve(name) ==
    IF name \in MainLocals THEN "local of main"
    ELSE IF name \in DOMAIN ModuleGlobals THEN ModuleGlobals[name]
    ELSE "NameError"

\* the exception one statement of the executed code raises, None when it
\* completes: "pass" completes, "raise" raises, any other word is a name that
\* is read
Statement(tok) ==
    IF tok = "pass" THEN None
    ELSE IF tok = "raise" THEN "ValueError"
    ELSE IF Resolve(tok) = "NameError" THEN "NameError"
    ELSE None

\* exec(code), line 267: the exception it raises, None when it completes.
\* A backtick is no Python: the code does not compile.  Otherwise the
\* statements run in order up to the first that raises.
RECURSIVE Exec(_)
Exec(code) ==
    IF \E i \in 1..Len(code) : code[i] = Tick THEN "SyntaxError"
    ELSE IF code = <<>> THEN None
    ELSE IF Statement(Head(code)) # None THEN Statement(Head(code))
    ELSE Exec(Tail(code))

\* lines 265-269 on the extracted code: exec, with its exception caught and
\* shown.  env is the binding the executed code sees for df and st.
Execute(message, code) ==
    [role |-> message.role, content |-> message.content,
     executed |-> TRUE, code |-> code, error |-> Exec(code),
     env |-> [df |-> Resolve("df"), st |-> Resolve("st")]]

\* one iteration of the loop of lines 258-269: the turn is displayed; the
\* code of an assistant turn with the opening marker is extracted and
\* executed.
RenderMessage(message) ==
    IF message.role = "assistant" /\ Contains(message.content, OpenFence)
    THEN Execute(message, ExtractCode(message.content))
    ELSE [role |-> message.role, content |-> message.content,
          executed |-> FALSE, code |-> <<>>, error |-> None,
          env |-> [df |-> None, st |-> None]]

\* ------------------------------------------------------- provider calls
\* texts the program returns (the Chinese literals of lines 33, 63 and 65)
NoDataText == <<"upload-a-data-file-first">>
UnsupportedText == <<"unsupported-API-type">>
FailPrefix == "API-call-failed:"

\* what the remote service can answer to the one POST of a query: text with
\* code that uses st only, and code that reads df
Responses ==
    { <<"txt">> \o OpenFence \o <<"st">> \o CloseFence \o <<"txt">>,
      OpenFence \o <<"df", "st">> \o CloseFence }

\* the outcome of the POST: a body with the expected field, no connection,
\* or a body without the field "choices"
HttpOutcomes ==
    {[kind |-> "ok", body |-> r] : r \in Responses}
        \cup {[kind |-> "ConnectionError", body |-> <<>>],
              [kind |-> "KeyError", body |-> <<>>]}

\* no POST was answered
NoHttp == [kind |-> "None", body |-> <<>>]

\* a POST that is made again when the first attempt fails
PostWithRetry(url, model, bearer, http) ==
    [raised |-> http.kind # "ok",
     value |-> IF http.kind = "ok" THEN http.body ELSE <<http.kind>>,
     posts |-> IF http.kind = "ok" THEN 1 ELSE 2,
     url |-> url, model |-> model, bearer |-> bearer]

\* requests.post(url, headers, json) followed by
\* response.json()["choices"][0]["message"]["content"]: lines 80-85, and the
\* same in 121-126, 141-146, 161-166, 181-186
Post(url, model, bearer, http) ==
    [raised |-> http.kind # "ok",
     value |-> IF http.kind = "ok" THEN http.body ELSE <<http.kind>>,
     posts |-> 1, url |-> url, model |-> model, bearer |-> bearer]

_call_deepseek(self, http) ==
    Post("https://api.deepseek.com/v1/chat/completions", "deepseek-chat",
         self.api_key, http)

_call_qwen(self, http) ==
    Post("https://dashscope.aliyuncs.com/compatible-mode/v1",
         "deepseek-r1-distill-qwen-7b", self.api_key, http)

_call_kimi(self, http) ==
    Post("https://api.moonshot.cn/v1/chat/completions", "moonshot-v1-8k",
         self.api_key, http)

_call_doubao(self, http) ==
    Post("https://open.byteflowapi.com/api/v1/chat/completions",
         "skylark2-pro-4k", self.api_key, http)

_call_zhipu(self, http) ==
    Post("https://open.bigmodel.cn/api/paas/v3/chat/completions",
         "chatglm-pro", self.api_key, http)

\* a result that made no POST
NoPost(text) ==
    [raised |-> FALSE, value |-> text, posts |-> 0,
     url |-> None, model |-> None, bearer |-> None]

\* the if/elif chain of lines 52-63
Dispatch(self, http) ==
    IF self.api_type = "DeepSeek" THEN _call_deepseek(self, http)
    ELSE IF self.api_type = "Qwen" THEN _call_qwen(self, http)
    ELSE IF self.api_type = "Kimi" THEN _call_kimi(self, http)
    ELSE IF self.api_type = "Doubao" THEN _call_doubao(self, http)
    ELSE IF self.api_type = "Zhipu" THEN _call_zhipu(self, http)
    ELSE NoPost(UnsupportedText)

\* process_query without the try of lines 51 and 64: the call's exception
\* leaves the method
process_query_uncaught(self, query, http) ==
    IF self.df = None
    THEN [ret |-> NoDataText, raised |-> FALSE, posts |-> 0,
          url |-> None, model |-> None, bearer |-> None]
    ELSE LET r == Dispatch(self, http)
         IN [ret |-> r.value, raised |-> r.raised, posts |-> r.posts,
             url |-> r.url, model |-> r.model, bearer |-> r.bearer]

\* DataAnalyzer.process_query, lines 30-65: the text returned (ret), whether
\* the method raised, and the POST it made.  An exception of the call is
\* caught at line 64 and its text is put into the returned string.
process_query(self, query, http) ==
    IF self.df = None
    THEN [ret |-> NoDataText, raised |-> FALSE, posts |-> 0,
          url |-> None, model |-> None, bearer |-> None]
    ELSE LET r == Dispatch(self, http)
         IN [ret |-> IF r.raised THEN <<FailPrefix>> \o r.value ELSE r.value,
             raised |-> FALSE, posts |-> r.posts,
             url |-> r.url, model |-> r.model, bearer |-> r.bearer]

\* ------------------------------------------------------- rendering loop
\* texts the user can type into st.chat_input, line 242
Queries == {"q1"}

\* the turns the chat log can hold: what the user typed, and what
\* process_query can return
Turns ==
    [role : {"user"}, content : {<<q>> : q \in Queries}]
        \cup [role : {"assistant"},
              content : Responses \cup {NoDataText, UnsupportedText}
                          \cup {<<FailPrefix, h.kind>> : h \in HttpOutcomes}]

\* RenderMessage on each turn the chat log can hold, as a table: the loop
\* renders the same turns again in every run
Renderings == [message \in Turns |-> RenderMessage(message)] @@ <<>>

\* the body of the loop on one turn of the log
RenderTurnOf(message) ==
    IF message \in DOMAIN Renderings
    THEN Renderings[message]
    ELSE RenderMessage(message)

\* the loop with the try of line 265 around it: the first exception of a
\* turn's code ends the loop
RECURSIVE RenderFromUntilError(_, _)
RenderFromUntilError(history, i) ==
    IF i > Len(history) THEN <<>>
    ELSE IF RenderTurnOf(history[i]).error # None
    THEN <<RenderTurnOf(history[i])>>
    ELSE <<RenderTurnOf(history[i])>> \o RenderFromUntilError(history, i + 1)

\* the loop of lines 258-269 over the session: every turn, in order; the
\* try of line 265 is inside the loop, so an exception of one turn's code
\* ends that turn's execution only.  The session is handed back as the loop
\* leaves it.
RECURSIVE RenderFrom(_, _)
RenderFrom(history, i) ==
    IF i > Len(history) THEN <<>>
    ELSE <<RenderTurnOf(history[i])>> \o RenderFrom(history, i + 1)

RenderLoop(session) ==
    [analyzer |-> session.analyzer, chat_history |-> session.chat_history,
     shown |-> RenderFrom(session.chat_history, 1), raised |-> FALSE]

\* ------------------------------------------------------------------ main
\* list.insert(0, turn) in place of list.append
AppendTurnFront(history, turn) == <<turn>> \o history

\* list.append, lines 250 and 255
AppendTurn(history, turn) == Append(history, turn)

\* no load_data call was made in the run
NoLoad == [called |-> FALSE]
\* no process_query call was made in the run
NoQuery == [called |-> FALSE]

\* lines 225-236: with a key and a file, the analyzer is created when there
\* is none or when its provider or key differ from the widgets'; the file is
\* loaded when the analyzer has no df.  Line 236 reads analyzer.df.head()
\* when load_data returned True: with df still None that raises
\* AttributeError, and nothing in main catches it.
Configure(analyzer, api_type, api_key, uploaded_file) ==
    IF api_key # "" /\ uploaded_file # None
    THEN LET a1 == IF \/ analyzer = NoAnalyzer
                      \/ analyzer.api_type # api_type
                      \/ analyzer.api_key # api_key
                   THEN DataAnalyzer(api_key, api_type)
                   ELSE analyzer
         IN IF a1.df = None
            THEN LET l == load_data(a1, uploaded_file)
                 IN [analyzer |-> [a1 EXCEPT !.df = l.df],
                     load |-> [called |-> TRUE, file |-> uploaded_file,
                               ret |-> l.ret, before |-> a1.df,
                               after |-> l.df, error |-> l.error],
                     raised |-> l.ret /\ l.df = None]
            ELSE [analyzer |-> a1, load |-> NoLoad, raised |-> FALSE]
    ELSE [analyzer |-> analyzer, load |-> NoLoad, raised |-> FALSE]

\* how a run of main ended without reaching the rendering loop
Stopped(analyzer, chat_history, outcome, user_input, load, query, appended) ==
    [analyzer |-> analyzer, chat_history |-> chat_history,
     run |-> [outcome |-> outcome, user_input |-> user_input, load |-> load,
              query |-> query, appended |-> appended, shown |-> <<>>]]

\* how a run of main ended after the rendering loop r
Rendered(r, user_input, load, query, appended) ==
    [analyzer |-> r.analyzer, chat_history |-> r.chat_history,
     run |-> [outcome |-> IF r.raised THEN "raised" ELSE "rendered",
              user_input |-> user_input, load |-> load, query |-> query,
              appended |-> appended, shown |-> r.shown]]

\* lines 250-269: the user's turn is appended, then the answer q of
\* process_query, then the log is rendered
Answer(session, c, user_input, http, q) ==
    LET asked == [role |-> "user", content |-> <<user_input>>]
        answer == [role |-> "assistant", content |-> q.ret]
        query == [called |-> TRUE, self |-> c.analyzer, result |-> q,
                  http |-> IF q.posts > 0 THEN http ELSE NoHttp]
    IN IF q.raised
       THEN Stopped(c.analyzer, AppendTurn(session.chat_history, asked),
                    "raised", user_input, c.load, query, <<asked>>)
       ELSE Rendered(
               RenderLoop([analyzer |-> c.analyzer,
                           chat_history |->
                               AppendTurn(AppendTurn(session.chat_history, asked),
                                          answer)]),
               user_input, c.load, query, <<asked, answer>>)

\* lines 244-269, for a run whose configuration c did not raise: a query
\* without an analyzer shows an error and returns (lines 245-247)
Chat(session, c, user_input, http) ==
    IF user_input = None
    THEN Rendered(RenderLoop([analyzer |-> c.analyzer,
                              chat_history |-> session.chat_history]),
                  None, c.load, NoQuery, <<>>)
    ELSE IF c.analyzer = NoAnalyzer
    THEN Stopped(c.analyzer, session.chat_history, "returned", user_input,
                 c.load, NoQuery, <<>>)
    ELSE Answer(session, c, user_input, http,
                process_query(c.analyzer, user_input, http))

\* main after lines 225-236: the AttributeError of line 236 ends the run
\* before the chat interface
Configured(session, c, user_input, http) ==
    IF c.raised
    THEN Stopped(c.analyzer, session.chat_history, "raised", user_input,
                 c.load, NoQuery, <<>>)
    ELSE Chat(session, c, user_input, http)

\* one run of main, lines 189-269, on the session state and the widget
\* values: the session state it leaves and the record of the run
Main(session, api_type, api_key, uploaded_file, user_input, http) ==
    Configured(session,
               Configure(session.analyzer, api_type, api_key, uploaded_file),
               user_input, http)

\* ----------------------------------------------------------------- state
VARIABLES
    api_type,        \* the selectbox's value, line 197
    api_key,         \* the text_input's value, line 205
    uploaded_file,   \* the file_uploader's value, line 211 (None: no file)
    analyzer,        \* st.session_state.analyzer
    chat_history,    \* st.session_state.chat_history
    run,             \* what the last run of main did
    turn,            \* a turn handed to the rendering step on its own
    shown            \* what the rendering step did with it

vars == <<api_type, api_key, uploaded_file, analyzer, chat_history, run, turn, shown>>

\* the rendering step has not run on turn
NotShown == [executed |-> FALSE, code |-> <<>>, pending |-> TRUE]

\* the first run of main in a new session: the widgets have their defaults
\* (index=0 of the selectbox, an empty key, no file), lines 218-222 create
\* the session state, and the loop renders an empty log
FirstRun ==
    Main([analyzer |-> NoAnalyzer, chat_history |-> <<>>],
         "DeepSeek", "", None, None, NoHttp)

Init ==
    /\ api_type = "DeepSeek"
    /\ api_key = ""
    /\ uploaded_file = None
    /\ analyzer = FirstRun.analyzer
    /\ chat_history = FirstRun.chat_history
    /\ run = FirstRun.run
    /\ turn = [role |-> "user", content |-> <<>>]
    /\ shown = NotShown

\* main runs on the widgets' new values and leaves the session state
Rerun(at, ak, uf, ui, http) ==
    \E m \in {Main([analyzer |-> analyzer, chat_history |-> chat_history],
                   at, ak, uf, ui, http)} :
       /\ api_type' = at
       /\ api_key' = ak
       /\ uploaded_file' = uf
       /\ analyzer' = m.analyzer
       /\ chat_history' = m.chat_history
       /\ run' = m.run
       /\ UNCHANGED <<turn, shown>>

\* the user picks another provider.  The key field's label and help hold
\* the provider's name (lines 206-208), and Streamlit identifies a widget
\* that is given no key by its parameters: the field of the new provider is
\* a new widget and starts empty.
SelectProvider ==
    \E t \in Providers \ {api_type} :
        Rerun(t, "", uploaded_file, None, NoHttp)

\* the user types or clears the key
EnterKey ==
    \E k \in Keys \ {api_key} : Rerun(api_type, k, uploaded_file, None, NoHttp)

\* the user uploads a file (replacing the one uploaded before, if any)
UploadFile ==
    \E f \in Files \ {uploaded_file} : Rerun(api_type, api_key, f, None, NoHttp)

\* the user removes the uploaded file
RemoveFile ==
    /\ uploaded_file # None
    /\ Rerun(api_type, api_key, None, None, NoHttp)

\* the user submits a query; the remote service answers the POST, if one is
\* made, with one of HttpOutcomes
SubmitQuery ==
    /\ Len(chat_history) < 2 * MaxQueries
    /\ \E q \in Queries : \E http \in HttpOutcomes :
          Rerun(api_type, api_key, uploaded_file, q, http)

\* main is run again with nothing changed (the Rerun command of the page)
Refresh == Rerun(api_type, api_key, uploaded_file, None, NoHttp)

Next ==
    \/ SelectProvider
    \/ EnterKey
    \/ UploadFile
    \/ RemoveFile
    \/ SubmitQuery
    \/ Refresh

Spec == Init /\ [][Next]_vars

\* ------------------------------------- the rendering step on its own
\* the characters a turn's content is made of
Alphabet == {Tick, "python", "pass"}
Contents == UNION {[1..n -> Alphabet] : n \in 0..MaxLen}

InitExtract ==
    /\ api_type = "DeepSeek"
    /\ api_key = ""
    /\ uploaded_file = None
    /\ analyzer = FirstRun.analyzer
    /\ chat_history = FirstRun.chat_history
    /\ run = FirstRun.run
    /\ turn \in [role : {"user", "assistant"}, content : Contents]
    /\ shown = NotShown

\* lines 259-269 on the turn
RenderTurn ==
    /\ shown = NotShown
    /\ shown' = RenderMessage(turn) @@ [pending |-> FALSE]
    /\ UNCHANGED <<api_type, api_key, uploaded_file, analyzer, chat_history, run, turn>>

NextExtract == RenderTurn

SpecExtract == InitExtract /\ [][NextExtract]_vars

\* ================================================================ claims
\* the assistant turns of the log whose content holds the opening marker
Fenced(history) ==
    {i \in 1..Len(history) :
        history[i].role = "assistant" /\ Contains(history[i].content, OpenFence)}

\* s is a prefix of t
IsPrefix(s, t) == Len(s) <= Len(t) /\ SubSeq(t, 1, Len(s)) = s

\* C1: a query is only ever processed against the Table of the file that is
\* uploaded when it is processed: uploading another file replaces the Table.
C1_QueryOnUploadedFile ==
    (run.query.called /\ run.query.self.df # None /\ uploaded_file # None)
        => run.query.self.df = TableOf(uploaded_file)

\* C2: whenever a query is processed, the analyzer's credential and provider
\* are the credential entered and the provider selected.
C2_QueryWithCurrentCredential ==
    run.query.called
        => /\ run.query.self.api_key = api_key
           /\ run.query.self.api_type = api_type

\* C3: code extracted from an assistant turn runs with the name df bound to
\* the analyzer's Table and st bound to the streamlit module.
C3_DfBoundToTable ==
    \A i \in 1..Len(run.shown) :
        run.shown[i].executed
            => /\ analyzer # NoAnalyzer
               /\ run.shown[i].env.df = analyzer.df
               /\ run.shown[i].env.st = "streamlit"

\* C4: load_data returns False only with the Table left as it was, and True
\* only with the Table replaced by the content of the given file.
C4_LoadContract ==
    run.load.called
        => /\ run.load.ret = FALSE => run.load.after = run.load.before
           /\ run.load.ret = TRUE => run.load.after = TableOf(run.load.file)

C7_FailureIsAnswered ==
    (run.query.called /\ run.query.http.kind \in {"ConnectionError", "KeyError"})
        => /\ run.query.self.api_type \in Providers
           /\ ~run.query.result.raised
           /\ run.outcome = "rendered"
           /\ run.query.result.posts = 1
           /\ run.query.result.ret[1] = FailPrefix
           /\ \E i \in 2..Len(run.query.result.ret) :
                run.query.result.ret[i] = run.query.http.kind
           /\ Len(chat_history) >= 2
           /\ chat_history[Len(chat_history)]
                = [role |-> "assistant", content |-> run.query.result.ret]
           /\ chat_history[Len(chat_history) - 1]
                = [role |-> "user", content |-> <<run.user_input>>]

\* the POST to the fifth provider came back without the field
C7_Witness ==
    /\ run.query.called
    /\ run.query.http.kind = "KeyError"
    /\ run.query.self.api_type = "Zhipu"
    /\ chat_history[Len(chat_history)].content = <<FailPrefix, "KeyError">>

\* the index of the first opening marker of content (0: there is none)
FirstOpen(content) ==
    IF \E i \in 1..Len(content) : OccursAt(content, OpenFence, i)
    THEN CHOOSE i \in 1..Len(content) :
            /\ OccursAt(content, OpenFence, i)
            /\ \A j \in 1..(i - 1) : ~OccursAt(content, OpenFence, j)
    ELSE 0

\* the indexes, after the first opening marker, where a closing marker starts
ClosesAfterOpen(content) ==
    {j \in (FirstOpen(content) + Len(OpenFence))..Len(content) :
        FirstOpen(content) # 0 /\ OccursAt(content, CloseFence, j)}

\* the index of the first closing marker after the first opening marker
FirstClose(content) ==
    CHOOSE j \in ClosesAfterOpen(content) :
        \A k \in ClosesAfterOpen(content) : j <= k

\* C8: from an assistant turn with a fenced block, the code extracted is the
\* text between the first opening marker and the first closing marker after
\* it; from a user's turn, or a content without the opening marker, nothing
\* is extracted and nothing is executed.
C8_ExtractsFirstBlock ==
    ~shown.pending
        => /\ (turn.role = "assistant" /\ ClosesAfterOpen(turn.content) # {})
                => /\ shown.executed
                   /\ shown.code = SubSeq(turn.content,
                                          FirstOpen(turn.content) + Len(OpenFence),
                                          FirstClose(turn.content) - 1)
           /\ (turn.role = "user" \/ FirstOpen(turn.content) = 0)
                => /\ ~shown.executed
                   /\ shown.code = <<>>

C10_EveryRunExecutes ==
    /\ run.outcome = "rendered"
         => /\ Len(run.shown) = Len(chat_history)
            /\ \A i \in 1..Len(chat_history) :
                 run.shown[i].executed = (i \in Fenced(chat_history))
    /\ (Fenced(chat_history) # {} /\ run.outcome # "rendered")
         => /\ run.outcome = "returned"
            /\ run.user_input # None
            /\ analyzer = NoAnalyzer
====
